---------------------------- MODULE Spec2Model ----------------------------
(***************************************************************************)
(* A model of src/main.py: the FastAPI application with the diagnostic     *)
(* probe GET /test (test_database) and the Stripe checkout handler         *)
(* POST /api/stripe/checkout (create_checkout_session).                    *)
(*                                                                         *)
(* Sync handlers run on the framework's thread pool, so several            *)
(* invocations of create_checkout_session can be in flight at once.  Each  *)
(* thread has the handler's locals (payload, stripe_secret, price_data,    *)
(* mode, session, the exception being handled); the only state shared by   *)
(* the threads is the attribute api_key of the imported stripe module.     *)
(*                                                                         *)
(* Strings of the source that start with a pictograph are written without  *)
(* it (the module is ASCII): "Not Set" stands for the source's literal     *)
(* with its leading cross mark, and so on.                                 *)
(***************************************************************************)
EXTENDS Integers, Sequences, FiniteSets, TLC

VARIABLES
    stripe_installed,  \* whether `import stripe` succeeds in this deployment
    stripe_api_key,    \* stripe.api_key, an attribute of the shared module
    pc,                \* per thread: position in create_checkout_session
    payload,           \* per thread: the validated CheckoutRequest
    stripe_secret,     \* per thread: local stripe_secret (line 84)
    stripe_bound,      \* per thread: whether the local name `stripe` is bound
    price_data,        \* per thread: local price_data
    mode,              \* per thread: local mode
    provider_calls,    \* per thread: calls of stripe.checkout.Session.create
    provider_request,  \* per thread: what the provider received in that call
    session,           \* per thread: local session (the provider's answer)
    exc,               \* per thread: the exception raised inside the try block
    response,          \* per thread: what the handler returned or raised
    test_input,        \* GET /test: collaborator and environment it observed
    test_response      \* GET /test: the outcome of test_database

checkout_vars == <<stripe_api_key, pc, payload, stripe_secret, stripe_bound,
                   price_data, mode, provider_calls, provider_request,
                   session, exc, response>>
test_vars == <<test_input, test_response>>
vars == <<stripe_installed, checkout_vars, test_vars>>

(***************************************************************************)
(* Bounds of the model.                                                    *)
(***************************************************************************)
NumThreads == 2
MaxErrLen == 51
MaxCollections == 11

Threads == 1..NumThreads

(***************************************************************************)
(* Python values shared by both handlers.                                  *)
(***************************************************************************)
\* os.getenv of a variable that is not set returns None.
Unset == "<None>"

\* Python truthiness of an os.getenv result: None and "" are falsy.
Truthy(v) == v # Unset /\ v # ""

\* isinstance(e, cls) for the exception classes the handlers meet: each of
\* them derives from Exception directly.
IsInstance(e, cls) == cls = "Exception" \/ e.type = cls

NoExc == [type |-> "none"]

(***************************************************************************)
(* POST /api/stripe/checkout: create_checkout_session (lines 79-136).      *)
(***************************************************************************)
\* class CheckoutRequest: plan is any str; the two URLs are HttpUrl values,
\* that is, parsed URLs, not the text the caller typed.
Plans == {"monthly", "six_month", "lifetime", "yearly", "Monthly"}
Urls == [scheme : {"https"}, host : {"a.example", "b.example"},
         path : {"/ok", "/cancel"}]
CheckoutRequest == [plan : Plans, success_url : Urls, cancel_url : Urls]

\* Values os.getenv("STRIPE_SECRET_KEY") can return.
SecretValues == {Unset, "", "sk_test_A", "sk_test_B"}

\* What stripe.checkout.Session.create can do: return a session object, raise
\* a subclass of stripe.error.StripeError, or raise any other Exception.
Messages == {"card declined", "timeout", ""}
Sessions == [kind : {"session"}, id : {"sess_123", "sess_456"},
             url : {"https://pay.example/sess_123", "https://pay.example/x"}]
ProviderErrors == [type : {"StripeError", "Exception"}, message : Messages]
Outcomes == Sessions \cup [kind : {"raise"}, exc : ProviderErrors]

\* The smaller inputs of the concurrent specification.
ConcRequests == [plan : {"monthly", "yearly"},
                 success_url : {[scheme |-> "https", host |-> "a.example", path |-> "/ok"]},
                 cancel_url : {[scheme |-> "https", host |-> "a.example", path |-> "/cancel"]}]
ConcSecrets == {Unset, "sk_test_A", "sk_test_B"}
ConcOutcomes == {[kind |-> "session", id |-> "sess_123", url |-> "https://pay.example/sess_123"],
                 [kind |-> "raise", exc |-> [type |-> "StripeError", message |-> "card declined"]],
                 [kind |-> "raise", exc |-> [type |-> "Exception", message |-> "timeout"]]}

\* Values of locals that are not bound, and of a thread that runs no request.
NoPayload == [plan |-> "<none>"]
NoPriceData == [unbound |-> TRUE]
NoMode == "<unbound>"
NoRequest == [sent |-> FALSE]
NoSession == [kind |-> "none"]
NoResponse == [kind |-> "none"]

\* raise HTTPException(status_code=..., detail=...): the framework answers
\* with that status and the body {"detail": detail}.
HTTPError(status_code, detail) ==
    [kind |-> "http_exception", status |-> status_code, body |-> [detail |-> detail]]

\* return <dict>: status 200 with the dict as body.
Returned(body) == [kind |-> "return", status |-> 200, body |-> body]

\* An exception that leaves the handler: the framework's 500 page.
Unhandled(type) ==
    [kind |-> "unhandled", status |-> 500, body |-> [text |-> "Internal Server Error"],
     type |-> type]

\* Mutant of SecretMissing: `if stripe_secret is None`, which lets an empty
\* credential through.
SecretMissing_NoneOnly(secret) == secret = Unset

\* `if not stripe_secret` (line 85).
SecretMissing(secret) == ~Truthy(secret)

\* Mutant of SelectPlan: the final else falls back to a default row
\* instead of raising.
SelectPlan_DefaultRow(plan) ==
    IF plan = "monthly" THEN
        [raised |-> FALSE,
         price_data |-> [currency |-> "usd", unit_amount |-> 100,
                         product_data |-> [name |-> "Monthly Plan", description |-> "$1 / month"],
                         recurring |-> [interval |-> "month", interval_count |-> 1]],
         mode |-> "subscription"]
    ELSE IF plan = "six_month" THEN
        [raised |-> FALSE,
         price_data |-> [currency |-> "usd", unit_amount |-> 600,
                         product_data |-> [name |-> "6-Month Plan", description |-> "$6 / 6 months"],
                         recurring |-> [interval |-> "month", interval_count |-> 6]],
         mode |-> "subscription"]
    ELSE
        [raised |-> FALSE,
         price_data |-> [currency |-> "usd", unit_amount |-> 3999,
                         product_data |-> [name |-> "Lifetime Access", description |-> "One-time payment"]],
         mode |-> "payment"]

\* Lines 93-120: the if/elif chain on payload.plan.
SelectPlan(plan) ==
    IF plan = "monthly" THEN
        [raised |-> FALSE,
         price_data |-> [currency |-> "usd", unit_amount |-> 100,
                         product_data |-> [name |-> "Monthly Plan", description |-> "$1 / month"],
                         recurring |-> [interval |-> "month", interval_count |-> 1]],
         mode |-> "subscription"]
    ELSE IF plan = "six_month" THEN
        [raised |-> FALSE,
         price_data |-> [currency |-> "usd", unit_amount |-> 600,
                         product_data |-> [name |-> "6-Month Plan", description |-> "$6 / 6 months"],
                         recurring |-> [interval |-> "month", interval_count |-> 6]],
         mode |-> "subscription"]
    ELSE IF plan = "lifetime" THEN
        [raised |-> FALSE,
         price_data |-> [currency |-> "usd", unit_amount |-> 3999,
                         product_data |-> [name |-> "Lifetime Access", description |-> "One-time payment"]],
         mode |-> "payment"]
    ELSE
        [raised |-> TRUE,
         exc |-> [type |-> "HTTPException", status_code |-> 400,
                  detail |-> "Invalid plan selected."]]

\* str(payload.success_url): the text of a parsed URL.
UrlStr(u) == u.scheme \o "://" \o u.host \o u.path

\* Mutant of SessionCreateArgs: the two redirect URLs change places.
SessionCreateArgs_UrlsSwapped(p, pd, m) ==
    [mode |-> m,
     line_items |-> <<[price_data |-> pd, quantity |-> 1]>>,
     success_url |-> UrlStr(p.cancel_url),
     cancel_url |-> UrlStr(p.success_url),
     allow_promotion_codes |-> TRUE,
     billing_address_collection |-> "auto",
     payment_method_types |-> <<"card">>]

\* Lines 122-130: the keyword arguments of stripe.checkout.Session.create.
SessionCreateArgs(p, pd, m) ==
    [mode |-> m,
     line_items |-> <<[price_data |-> pd, quantity |-> 1]>>,
     success_url |-> UrlStr(p.success_url),
     cancel_url |-> UrlStr(p.cancel_url),
     allow_promotion_codes |-> TRUE,
     billing_address_collection |-> "auto",
     payment_method_types |-> <<"card">>]

\* Mutant of SessionBody: the body's id is taken from the redirect URL.
SessionBody_IdFromUrl(s) == [id |-> s.url, url |-> s.url]

\* Line 131: return {"id": session.id, "url": session.url}.
SessionBody(s) == [id |-> s.id, url |-> s.url]

\* str(e) for the exceptions the except clauses meet.  An HTTPException
\* built with keyword arguments only prints as "" in the releases of the
\* framework that define no __str__ for it and as "<status>: <detail>" in
\* the others; every other exception prints as its message.
StrOf(e) ==
    IF e.type = "HTTPException"
    THEN {"", ToString(e.status_code) \o ": " \o e.detail}
    ELSE {e.message}

\* Mutant of ExceptClauses: the two except clauses in the other order, so
\* that `except Exception` takes every exception.
ExceptClauses_GenericFirst(e, bound, s) ==
    IF ~bound THEN Unhandled("UnboundLocalError")
    ELSE IF IsInstance(e, "Exception") THEN HTTPError(500, "Unexpected error: " \o s)
    ELSE IF IsInstance(e, "StripeError") THEN HTTPError(400, s)
    ELSE Unhandled(e.type)

\* Lines 133-136: the except clauses, tried in order, for exception e whose
\* str(e) is s.  The first clause evaluates stripe.error.StripeError, which
\* needs the local name `stripe`: when `import stripe` itself failed that
\* name is unbound and the lookup raises UnboundLocalError out of the handler.
ExceptClauses(e, bound, s) ==
    IF ~bound THEN Unhandled("UnboundLocalError")
    ELSE IF IsInstance(e, "StripeError") THEN HTTPError(400, s)
    ELSE IF IsInstance(e, "Exception") THEN HTTPError(500, "Unexpected error: " \o s)
    ELSE Unhandled(e.type)

\* Lines 80-86: the handler is entered with a validated payload, reads the
\* credential from the environment, and fails at once when it is missing.
CheckSecret(r, requests, secrets) ==
    /\ pc[r] = "idle"
    /\ \E p \in requests, k \in secrets :
          /\ payload' = [payload EXCEPT ![r] = p]
          /\ stripe_secret' = [stripe_secret EXCEPT ![r] = k]
          /\ IF SecretMissing(k)
             THEN /\ response' = [response EXCEPT ![r] =
                        HTTPError(500, "Stripe Secret Key not configured on server.")]
                  /\ pc' = [pc EXCEPT ![r] = "done"]
             ELSE /\ response' = response
                  /\ pc' = [pc EXCEPT ![r] = "import"]
    /\ UNCHANGED <<stripe_installed, stripe_api_key, stripe_bound, price_data, mode,
                   provider_calls, provider_request, session, exc, test_vars>>

\* Lines 89-90: import stripe; stripe.api_key = stripe_secret.
ImportStripe(r) ==
    /\ pc[r] = "import"
    /\ IF stripe_installed
       THEN /\ stripe_bound' = [stripe_bound EXCEPT ![r] = TRUE]
            /\ stripe_api_key' = stripe_secret[r]
            /\ pc' = [pc EXCEPT ![r] = "select"]
            /\ exc' = exc
       ELSE /\ exc' = [exc EXCEPT ![r] =
                  [type |-> "ImportError", message |-> "No module named 'stripe'"]]
            /\ pc' = [pc EXCEPT ![r] = "except"]
            /\ UNCHANGED <<stripe_bound, stripe_api_key>>
    /\ UNCHANGED <<stripe_installed, payload, stripe_secret, price_data, mode,
                   provider_calls, provider_request, session, response, test_vars>>

\* Lines 93-120: bind price_data and mode, or raise inside the try block.
MapPlan(r) ==
    /\ pc[r] = "select"
    /\ LET sel == SelectPlan(payload[r].plan) IN
          IF sel.raised
          THEN /\ exc' = [exc EXCEPT ![r] = sel.exc]
               /\ pc' = [pc EXCEPT ![r] = "except"]
               /\ UNCHANGED <<price_data, mode>>
          ELSE /\ price_data' = [price_data EXCEPT ![r] = sel.price_data]
               /\ mode' = [mode EXCEPT ![r] = sel.mode]
               /\ pc' = [pc EXCEPT ![r] = "create"]
               /\ exc' = exc
    /\ UNCHANGED <<stripe_installed, stripe_api_key, payload, stripe_secret, stripe_bound,
                   provider_calls, provider_request, session, response, test_vars>>

\* Lines 122-130: the blocking call of the provider.  The library signs the
\* request with stripe.api_key as it is when the call is made.
CreateSession(r, outcomes) ==
    /\ pc[r] = "create"
    /\ provider_calls' = [provider_calls EXCEPT ![r] = @ + 1]
    /\ provider_request' = [provider_request EXCEPT ![r] =
          [sent |-> TRUE, api_key |-> stripe_api_key,
           args |-> SessionCreateArgs(payload[r], price_data[r], mode[r])]]
    /\ \E o \in outcomes :
          IF o.kind = "session"
          THEN /\ session' = [session EXCEPT ![r] = o]
               /\ pc' = [pc EXCEPT ![r] = "return"]
               /\ exc' = exc
          ELSE /\ exc' = [exc EXCEPT ![r] = o.exc]
               /\ pc' = [pc EXCEPT ![r] = "except"]
               /\ session' = session
    /\ UNCHANGED <<stripe_installed, stripe_api_key, payload, stripe_secret, stripe_bound,
                   price_data, mode, response, test_vars>>

\* Line 131.
ReturnSession(r) ==
    /\ pc[r] = "return"
    /\ response' = [response EXCEPT ![r] = Returned(SessionBody(session[r]))]
    /\ pc' = [pc EXCEPT ![r] = "done"]
    /\ UNCHANGED <<stripe_installed, stripe_api_key, payload, stripe_secret, stripe_bound,
                   price_data, mode, provider_calls, provider_request, session, exc,
                   test_vars>>

\* Lines 133-136.
HandleException(r) ==
    /\ pc[r] = "except"
    /\ \E s \in StrOf(exc[r]) :
          response' = [response EXCEPT ![r] = ExceptClauses(exc[r], stripe_bound[r], s)]
    /\ pc' = [pc EXCEPT ![r] = "done"]
    /\ UNCHANGED <<stripe_installed, stripe_api_key, payload, stripe_secret, stripe_bound,
                   price_data, mode, provider_calls, provider_request, session, exc,
                   test_vars>>

\* The response is sent and the call's frame is gone; the thread is free
\* for the next request.  stripe.api_key stays as the handler left it.
Respond(r) ==
    /\ pc[r] = "done"
    /\ pc' = [pc EXCEPT ![r] = "idle"]
    /\ payload' = [payload EXCEPT ![r] = NoPayload]
    /\ stripe_secret' = [stripe_secret EXCEPT ![r] = Unset]
    /\ stripe_bound' = [stripe_bound EXCEPT ![r] = FALSE]
    /\ price_data' = [price_data EXCEPT ![r] = NoPriceData]
    /\ mode' = [mode EXCEPT ![r] = NoMode]
    /\ provider_calls' = [provider_calls EXCEPT ![r] = 0]
    /\ provider_request' = [provider_request EXCEPT ![r] = NoRequest]
    /\ session' = [session EXCEPT ![r] = NoSession]
    /\ exc' = [exc EXCEPT ![r] = NoExc]
    /\ response' = [response EXCEPT ![r] = NoResponse]
    /\ UNCHANGED <<stripe_installed, stripe_api_key, test_vars>>

(***************************************************************************)
(* GET /test: test_database (lines 27-69).                                 *)
(***************************************************************************)
ErrShown == 50
CollectionsShown == 10

\* s[:n]
Take(s, n) == SubSeq(s, 1, IF Len(s) < n THEN Len(s) ELSE n)

\* str(e) of an exception of the database collaborator: a text of n
\* characters is the sequence 1..n, so that a slice shows what it kept.
ErrMessages == {[i \in 1..n |-> i] : n \in 0..MaxErrLen}
CollectionLists == {[i \in 1..n |-> i] : n \in 0..MaxCollections}

\* db.list_collection_names() raises or returns a list.
ListOutcomes == [raises : {TRUE}, message : ErrMessages]
                  \cup [raises : {FALSE}, names : CollectionLists]

\* What `from database import db` meets: no such module, a module whose
\* import raises something else, a module whose db is None, a db object.
Databases ==
    {[import |-> "ImportError"]}
      \cup [import : {"Exception"}, message : ErrMessages]
      \cup {[import |-> "ok", db_is_none |-> TRUE]}
      \cup [import : {"ok"}, db_is_none : {FALSE}, has_name : BOOLEAN,
            name : {"appdb"}, list : ListOutcomes]

\* Values of os.getenv("DATABASE_URL") and os.getenv("DATABASE_NAME").
DbEnvValues == {Unset, "", "mongodb://db.example/app"}

\* A value of response["database"]: a literal, followed by the part of an
\* error text an f-string appends to it.
Text(literal, tail) == [literal |-> literal, tail |-> tail]

\* Lines 30-37.
InitialResponse ==
    [backend |-> "Running",
     database |-> Text("Not Available", <<>>),
     database_url |-> Unset,
     database_name |-> Unset,
     connection_status |-> "Not Connected",
     collections |-> <<>>]

\* Lines 50-55: the inner try around db.list_collection_names().
ListCollections(resp, list) ==
    IF list.raises
    THEN [resp EXCEPT !.database =
              Text("Connected but Error: ", Take(list.message, ErrShown))]
    ELSE [resp EXCEPT !.collections = Take(list.names, CollectionsShown),
                      !.database = Text("Connected & Working", <<>>)]

\* Lines 41-57: the body of the outer try; exc is what it raised, if anything.
ProbeDatabase(resp, D) ==
    IF D.import = "ImportError"
    THEN [response |-> resp, exc |-> [type |-> "ImportError", message |-> <<>>]]
    ELSE IF D.import = "Exception"
    THEN [response |-> resp, exc |-> [type |-> "Exception", message |-> D.message]]
    ELSE IF D.db_is_none
    THEN [response |-> [resp EXCEPT !.database =
                            Text("Available but not initialized", <<>>)],
          exc |-> NoExc]
    ELSE [response |->
              ListCollections(
                  [resp EXCEPT !.database = Text("Available", <<>>),
                               !.database_url = "Configured",
                               !.database_name =
                                   IF D.has_name THEN D.name ELSE "Connected",
                               !.connection_status = "Connected"],
                  D.list),
          exc |-> NoExc]

\* Mutant of ExceptImport: only `except ImportError`, without the
\* `except Exception` clause after it.
ExceptImport_ImportErrorOnly(probed) ==
    IF probed.exc = NoExc
    THEN [raised |-> FALSE, response |-> probed.response]
    ELSE IF IsInstance(probed.exc, "ImportError")
    THEN [raised |-> FALSE,
          response |-> [probed.response EXCEPT !.database =
              Text("Database module not found (run enable-database first)", <<>>)]]
    ELSE [raised |-> TRUE, type |-> probed.exc.type]

\* Lines 59-62: the except clauses of the outer try, tried in order.
ExceptImport(probed) ==
    IF probed.exc = NoExc
    THEN [raised |-> FALSE, response |-> probed.response]
    ELSE IF IsInstance(probed.exc, "ImportError")
    THEN [raised |-> FALSE,
          response |-> [probed.response EXCEPT !.database =
              Text("Database module not found (run enable-database first)", <<>>)]]
    ELSE IF IsInstance(probed.exc, "Exception")
    THEN [raised |-> FALSE,
          response |-> [probed.response EXCEPT !.database =
              Text("Error: ", Take(probed.exc.message, ErrShown))]]
    ELSE [raised |-> TRUE, type |-> probed.exc.type]

\* Mutant of EnvFields: the environment fills the two fields only where the
\* probe left them None.
EnvFields_KeepProbe(resp, url, name) ==
    [resp EXCEPT !.database_url =
                     IF resp.database_url # Unset THEN resp.database_url
                     ELSE IF Truthy(url) THEN "Set" ELSE "Not Set",
                 !.database_name =
                     IF resp.database_name # Unset THEN resp.database_name
                     ELSE IF Truthy(name) THEN "Set" ELSE "Not Set"]

\* Lines 66-67.
EnvFields(resp, url, name) ==
    [resp EXCEPT !.database_url = IF Truthy(url) THEN "Set" ELSE "Not Set",
                 !.database_name = IF Truthy(name) THEN "Set" ELSE "Not Set"]

\* The whole of test_database for one state of its collaborators.
TestDatabaseResult(D, url, name) ==
    LET handled == ExceptImport(ProbeDatabase(InitialResponse, D)) IN
    IF handled.raised
    THEN Unhandled(handled.type)
    ELSE Returned(EnvFields(handled.response, url, name))

NoTestInput == [none |-> TRUE]

TestDatabase ==
    /\ test_response = NoResponse
    /\ \A r \in Threads : pc[r] = "idle"
    /\ \E D \in Databases, url \in DbEnvValues, name \in DbEnvValues :
          /\ test_input' = [database |-> D, DATABASE_URL |-> url, DATABASE_NAME |-> name]
          /\ test_response' = TestDatabaseResult(D, url, name)
    /\ UNCHANGED <<stripe_installed, checkout_vars>>

\* The diagnostic response is sent.
TestRespond ==
    /\ test_response # NoResponse
    /\ test_input' = NoTestInput
    /\ test_response' = NoResponse
    /\ UNCHANGED <<stripe_installed, checkout_vars>>

(***************************************************************************)
(* The specifications.                                                     *)
(***************************************************************************)
\* The process after start-up: no request in flight, stripe.api_key as the
\* library ships it (None).
Init ==
    /\ stripe_installed \in BOOLEAN
    /\ stripe_api_key = Unset
    /\ pc = [r \in Threads |-> "idle"]
    /\ payload = [r \in Threads |-> NoPayload]
    /\ stripe_secret = [r \in Threads |-> Unset]
    /\ stripe_bound = [r \in Threads |-> FALSE]
    /\ price_data = [r \in Threads |-> NoPriceData]
    /\ mode = [r \in Threads |-> NoMode]
    /\ provider_calls = [r \in Threads |-> 0]
    /\ provider_request = [r \in Threads |-> NoRequest]
    /\ session = [r \in Threads |-> NoSession]
    /\ exc = [r \in Threads |-> NoExc]
    /\ response = [r \in Threads |-> NoResponse]
    /\ test_input = NoTestInput
    /\ test_response = NoResponse

\* No other request is being handled while thread r runs.
Alone(r) ==
    /\ test_response = NoResponse
    /\ \A q \in Threads \ {r} : pc[q] = "idle"

\* Requests handled one at a time, on any thread, with the full inputs.
Next ==
    \/ \E r \in Threads : Alone(r) /\ CheckSecret(r, CheckoutRequest, SecretValues)
    \/ \E r \in Threads : Alone(r) /\ ImportStripe(r)
    \/ \E r \in Threads : Alone(r) /\ MapPlan(r)
    \/ \E r \in Threads : Alone(r) /\ CreateSession(r, Outcomes)
    \/ \E r \in Threads : Alone(r) /\ ReturnSession(r)
    \/ \E r \in Threads : Alone(r) /\ HandleException(r)
    \/ \E r \in Threads : Alone(r) /\ Respond(r)
    \/ TestDatabase
    \/ TestRespond

Spec == Init /\ [][Next]_vars

\* Checkout requests handled concurrently: the steps of the threads
\* interleave in any order.
ConcNext ==
    \/ \E r \in Threads : CheckSecret(r, ConcRequests, ConcSecrets)
    \/ \E r \in Threads : ImportStripe(r)
    \/ \E r \in Threads : MapPlan(r)
    \/ \E r \in Threads : CreateSession(r, ConcOutcomes)
    \/ \E r \in Threads : ReturnSession(r)
    \/ \E r \in Threads : HandleException(r)
    \/ \E r \in Threads : Respond(r)

ConcSpec == Init /\ [][ConcNext]_vars

(***************************************************************************)
(* The properties.                                                         *)
(***************************************************************************)
ValidPlans == {"monthly", "six_month", "lifetime"}

Done(r) == pc[r] = "done"

\* The provider call of thread r raised e (nothing raises after the call).
ProviderRaised(r) == provider_calls[r] = 1 /\ exc[r] # NoExc

\* Every text str(e) can be for an exception the handler catches.
CaughtTexts ==
    Messages \cup {"", "400: Invalid plan selected.", "No module named 'stripe'"}

\* A response of the 500 "Unexpected error: ..." class.
IsUnexpectedError(resp) ==
    /\ resp.kind = "http_exception"
    /\ resp.status = 500
    /\ \E s \in CaughtTexts : resp.body.detail = "Unexpected error: " \o s

\* C1: with the credential configured (and the provider library imported),
\* a plan that is none of monthly, six_month, lifetime is answered with
\* status 400 and detail exactly "Invalid plan selected.".
C1_InvalidPlanIs400 ==
    \A r \in Threads :
        (Done(r) /\ Truthy(stripe_secret[r]) /\ stripe_bound[r]
            /\ payload[r].plan \notin ValidPlans)
        => response[r] = [kind |-> "http_exception", status |-> 400,
                          body |-> [detail |-> "Invalid plan selected."]]

\* C2: when STRIPE_SECRET_KEY is unset or empty the response is status 500
\* with detail "Stripe Secret Key not configured on server." for every plan,
\* valid or not, and the plan has not been examined: no pricing is bound and
\* nothing was raised inside the try block.
C2_MissingSecretIs500 ==
    \A r \in Threads :
        (pc[r] # "idle" /\ ~Truthy(stripe_secret[r]))
        => /\ Done(r)
           /\ response[r] = [kind |-> "http_exception", status |-> 500,
                  body |-> [detail |-> "Stripe Secret Key not configured on server."]]
           /\ price_data[r] = NoPriceData
           /\ exc[r] = NoExc

\* A request with an empty credential and an invalid plan has been answered.
C2_Witness ==
    \E r \in Threads :
        /\ Done(r)
        /\ stripe_secret[r] = ""
        /\ payload[r].plan = "yearly"
        /\ response[r].status = 500

\* C3: in the handling of one request the provider's session-creation call
\* is made at most once, and only with the credential configured and a plan
\* among monthly, six_month, lifetime; on the missing-credential path and on
\* the invalid-plan path the call count is 0.
C3_AtMostOneCall ==
    \A r \in Threads :
        /\ provider_calls[r] <= 1
        /\ provider_calls[r] >= 1
              => Truthy(stripe_secret[r]) /\ payload[r].plan \in ValidPlans
        /\ (Done(r) /\ (~Truthy(stripe_secret[r]) \/ payload[r].plan \notin ValidPlans))
              => provider_calls[r] = 0 /\ provider_request[r] = NoRequest

\* A request whose single provider call failed has been answered with the
\* failure: the call was not made again.
C3_Witness ==
    \E r \in Threads :
        /\ Done(r)
        /\ provider_calls[r] = 1
        /\ exc[r] # NoExc
        /\ response[r].status \in {400, 500}

\* C4: the request the provider receives carries the static pricing row of
\* the plan (monthly: 100, subscription, every 1 month; six_month: 600,
\* subscription, every 6 months; lifetime: 3999, one-time payment, no
\* recurrence field), currency usd, exactly one line item of quantity 1,
\* and the text of the caller's success_url and of the caller's cancel_url.
C4_PricingRowSent ==
    \A r \in Threads :
        provider_request[r].sent =>
            LET a == provider_request[r].args
                p == payload[r]
                item == a.line_items[1]
                pd == item.price_data
            IN  /\ Len(a.line_items) = 1
                /\ item.quantity = 1
                /\ pd.currency = "usd"
                /\ a.success_url = p.success_url.scheme \o "://"
                                     \o p.success_url.host \o p.success_url.path
                /\ a.cancel_url = p.cancel_url.scheme \o "://"
                                     \o p.cancel_url.host \o p.cancel_url.path
                /\ CASE p.plan = "monthly" ->
                          /\ pd.unit_amount = 100
                          /\ a.mode = "subscription"
                          /\ "recurring" \in DOMAIN pd
                          /\ pd.recurring = [interval |-> "month", interval_count |-> 1]
                     [] p.plan = "six_month" ->
                          /\ pd.unit_amount = 600
                          /\ a.mode = "subscription"
                          /\ "recurring" \in DOMAIN pd
                          /\ pd.recurring = [interval |-> "month", interval_count |-> 6]
                     [] p.plan = "lifetime" ->
                          /\ pd.unit_amount = 3999
                          /\ a.mode = "payment"
                          /\ "recurring" \notin DOMAIN pd
                     [] OTHER -> FALSE

\* The provider has received a lifetime request whose two redirect URLs differ.
C4_Witness ==
    \E r \in Threads :
        /\ provider_request[r].sent
        /\ payload[r].plan = "lifetime"
        /\ payload[r].success_url # payload[r].cancel_url

\* C5: when the provider call returns a session, the handler responds with
\* status 200 and a body whose id and url are the session's id and url.
C5_SessionReturnedVerbatim ==
    \A r \in Threads :
        (Done(r) /\ session[r].kind = "session")
        => response[r] = [kind |-> "return", status |-> 200,
                          body |-> [id |-> session[r].id, url |-> session[r].url]]

\* A request whose provider call returned a session has been answered.
C5_Witness ==
    \E r \in Threads :
        /\ Done(r)
        /\ session[r].kind = "session"
        /\ session[r].id = "sess_456"
        /\ response[r].status = 200

\* C6: when the provider call raises a StripeError whose text is m, the
\* handler responds with status 400 and detail exactly m, never with a 500.
C6_StripeErrorIs400 ==
    \A r \in Threads :
        (Done(r) /\ ProviderRaised(r) /\ exc[r].type = "StripeError")
        => response[r] = [kind |-> "http_exception", status |-> 400,
                          body |-> [detail |-> exc[r].message]]

\* A request whose provider call raised StripeError("card declined") has
\* been answered.
C6_Witness ==
    \E r \in Threads :
        /\ Done(r)
        /\ ProviderRaised(r)
        /\ exc[r] = [type |-> "StripeError", message |-> "card declined"]
        /\ response[r].status = 400

\* C7: when the provider call raises an exception that is not a StripeError,
\* with text m, the handler responds with status 500 and detail
\* "Unexpected error: " followed by m; and a 500 "Unexpected error" response
\* is produced only for such an exception of the provider call.
C7_UnexpectedOnlyFromProvider ==
    \A r \in Threads :
        Done(r) =>
            /\ (ProviderRaised(r) /\ exc[r].type # "StripeError")
                  => response[r] = [kind |-> "http_exception", status |-> 500,
                         body |-> [detail |-> "Unexpected error: " \o exc[r].message]]
            /\ IsUnexpectedError(response[r])
                  => ProviderRaised(r) /\ exc[r].type # "StripeError"

\* C8: GET /test completes with a normal status 200 response and propagates
\* no error, whatever the database collaborator does; with no collaborator
\* (module not importable, import raising, db None) the database field
\* reports that and collections is empty.
C8_TestNeverRaises ==
    test_response # NoResponse =>
        /\ test_response.kind = "return"
        /\ test_response.status = 200
        /\ LET D == test_input.database
               body == test_response.body
           IN  /\ D.import = "ImportError" =>
                     /\ body.database.literal =
                            "Database module not found (run enable-database first)"
                     /\ body.collections = <<>>
                     /\ body.connection_status = "Not Connected"
               /\ D.import = "Exception" =>
                     /\ body.database.literal = "Error: "
                     /\ body.collections = <<>>
                     /\ body.connection_status = "Not Connected"
               /\ (D.import = "ok" /\ D.db_is_none) =>
                     /\ body.database.literal = "Available but not initialized"
                     /\ body.collections = <<>>
                     /\ body.connection_status = "Not Connected"

\* GET /test has answered although importing the database module raised
\* an exception other than ImportError, with a long text.
C8_Witness ==
    /\ test_response # NoResponse
    /\ test_input.database.import = "Exception"
    /\ Len(test_input.database.message) > ErrShown
    /\ test_response.status = 200

\* C9: under any interleaving of concurrent checkout requests, each
\* request's provider call uses the credential that same request read.
C9_OwnCredentialUsed ==
    \A r \in Threads :
        provider_request[r].sent => provider_request[r].api_key = stripe_secret[r]

\* C10: in every response of GET /test, database_url and database_name are
\* "Set" or "Not Set" according to the environment variables DATABASE_URL
\* and DATABASE_NAME alone; the marker "Configured" and db.name, assigned
\* earlier from the collaborator, never appear in them.
C10_EnvFieldsFromEnvOnly ==
    (test_response # NoResponse /\ test_response.kind = "return") =>
        LET body == test_response.body IN
        /\ body.database_url = IF Truthy(test_input.DATABASE_URL) THEN "Set" ELSE "Not Set"
        /\ body.database_name = IF Truthy(test_input.DATABASE_NAME) THEN "Set" ELSE "Not Set"
        /\ body.database_url # "Configured"
        /\ body.database_name \notin {"appdb", "Connected"}

\* GET /test has answered with a connected, named db and neither variable set.
C10_Witness ==
    /\ test_response # NoResponse
    /\ test_input.database.import = "ok"
    /\ ~test_input.database.db_is_none
    /\ test_input.database.has_name
    /\ test_response.body.connection_status = "Connected"
    /\ test_input.DATABASE_URL = Unset
    /\ test_input.DATABASE_NAME = ""
    /\ test_response.body.database_url = "Not Set"

=============================================================================
